---------------------------- MODULE Spec2Model ----------------------------
(***************************************************************************)
(* num_enum / num_enum_derive: the derive macros IntoPrimitive,            *)
(* TryFromPrimitive and UnsafeFromPrimitive.                               *)
(*                                                                         *)
(* A compilation holds a set of derive requests.  Each request runs        *)
(* EnumInfo::parse over its own input (the attribute loop and the variant  *)
(* map are stepped one item at a time, every local of parse being a field  *)
(* of the request) and then quotes its output.  Once every request has     *)
(* emitted code and the crate compiles, the generated functions are        *)
(* called.                                                                 *)
(***************************************************************************)
EXTENDS Integers, Sequences, FiniteSets, TLC

\* ------------------------------------------------------------------ bounds

\* Longest attribute list of a declaration.
MaxAttrs == 2

\* Longest variant list of a declaration.
MaxVariants == 3

\* ------------------------------------------------------- input syntax trees

\* Sequences over S of length at most n.
SeqUpTo(S, n) == UNION {[1..k -> S] : k \in 0..n}

\* Expr: an integer literal, a path to a constant, or the call
\* `#repr::wrapping_add(#variant_ident, 1)` the analyzer synthesizes.
Lit(n) == [k |-> "lit", v |-> n, id |-> ""]

Path(id) == [k |-> "path", v |-> 0, id |-> id]

WrappingAdd(id) == [k |-> "wrapping_add", v |-> 1, id |-> id]

\* variant.discriminant = None
NoDiscriminant == [k |-> "none", v |-> 0, id |-> ""]

\* literal(i): the literal expression of i.
literal(i) == Lit(i)

\* The integer types a repr may name here, with their ranges.
IntTypes == {"u8", "i8"}

MinVal(repr) == IF repr = "i8" THEN -128 ELSE 0

MaxVal(repr) == IF repr = "i8" THEN 127 ELSE 255

InRange(repr, x) == MinVal(repr) <= x /\ x <= MaxVal(repr)

\* Identifiers (single-segment paths) a nested repr argument may be; any
\* other nested argument (align(4), a literal, a::b) is no identifier.
Idents == {"u8", "i8", "C", "transparent"}

\* The identifier of the variant declared at each position.
VariantIdents == <<"A", "B", "C", "D", "E">>

\* Constants of the module the enum is declared in: the scope its explicit
\* discriminant expressions are written in.  ONE is as in the comment of
\* derive_try_from_primitive; A shares its name with the first variant.
ModuleConsts == [ONE |-> 1, A |-> 1]

\* #[repr(a, b, ...)]
ReprAttr(nested) == [meta |-> "list", path |-> "repr", nested |-> nested]

\* #[allow(dead_code)]: a list attribute that is not repr.
AllowAttr == [meta |-> "list", path |-> "allow", nested |-> <<"dead_code">>]

\* #[doc = "..."]: an attribute that is not a list.
DocAttr == [meta |-> "name_value", path |-> "doc", nested |-> <<>>]

\* The attributes a declaration's list is drawn from.
AttrChoices ==
    { ReprAttr(<<>>), ReprAttr(<<"u8">>), ReprAttr(<<"C">>),
      ReprAttr(<<"C", "u8">>), ReprAttr(<<"transparent">>),
      ReprAttr(<<"align(4)">>), AllowAttr, DocAttr }

\* The discriminants a variant of an enum of type repr is given.
DiscChoices(repr) ==
    { NoDiscriminant, Lit(10), Lit(MaxVal(repr)), Path("ONE"), Path("A") }

\* The variant list with the given discriminants, named by position.
Variants(ds) ==
    [i \in 1..Len(ds) |-> [ident |-> VariantIdents[i], discriminant |-> ds[i]]]

Decl(kind, attrs, variants) ==
    [kind |-> kind, ident |-> "E", attrs |-> attrs, variants |-> variants]

\* enum E { A, B, C = 10, D } of section 8 of the specification.
ExampleDecl(repr) ==
    Decl("enum", <<ReprAttr(<<repr>>)>>,
         Variants(<<NoDiscriminant, NoDiscriminant, Lit(10), NoDiscriminant>>))

\* Declarations varying in kind and attribute list.
DeclsByAttrs ==
    { Decl(kind, attrs, IF kind = "enum" THEN Variants(<<NoDiscriminant>>) ELSE <<>>) :
        kind \in {"enum", "struct", "union"},
        attrs \in SeqUpTo(AttrChoices, MaxAttrs) }

\* Enums #[repr(u8)] / #[repr(i8)] varying in variant list.
DeclsByVariants ==
    UNION { { Decl("enum", <<ReprAttr(<<repr>>)>>, Variants(ds)) :
                ds \in SeqUpTo(DiscChoices(repr), MaxVariants) } \cup {ExampleDecl(repr)} :
            repr \in IntTypes }

Decls == DeclsByAttrs \cup DeclsByVariants

\* The three derive macros.
Modes == <<"IntoPrimitive", "TryFromPrimitive", "UnsafeFromPrimitive">>

\* The derive requests of one compilation.
Requests == {1, 2}


\* ------------------------------------------------------------ macro output

\* What a derive returns to the compiler: nothing yet, the quoted item, the
\* compile_error! of a diagnostic (parse_macro_input! on Err), or a panic.
NoOutput ==
    [kind |-> "none", item |-> "", name |-> "", repr |-> "",
     consts |-> <<>>, arms |-> <<>>, msg |-> "", span |-> ""]

\* die!(span => msg): return Err(Error::new(span, msg)).
die(span, msg) == [NoOutput EXCEPT !.kind = "compile_error", !.msg = msg, !.span = span]

\* parse_quote! on tokens that are not of the type asked for.
Panicked == [NoOutput EXCEPT !.kind = "panic"]

\* quote! { ... }: the emitted item.
Tokens(item, name, repr, consts, arms) ==
    [NoOutput EXCEPT !.kind = "tokens", !.item = item, !.name = name,
                     !.repr = repr, !.consts = consts, !.arms = arms]

\* The diagnostics (a backtick of the source is written as a quote here).
MsgExpectedEnum == "Expected enum"

MsgOneArgument == "Expected exactly one 'repr' argument"

MsgReprC == "repr(C) doesn't have a well defined size"

MsgMissingRepr == "Missing '#[repr({Integer})]' attribute"

\* ------------------------------------------------------------------- state

VARIABLES
    req,    \* req[r]: derive request r, with the locals of its EnumInfo::parse
    crate,  \* "expanding", then "compiled" or "rejected"
    rt      \* the last call of a generated function and what it returned

vars == <<req, crate, rt>>

\* A derive request before it runs.
NewRequest(mode, input) ==
    [mode |-> mode, input |-> input, pc |-> "parse",
     name |-> "", attrs |-> <<>>, variants |-> <<>>, repr |-> "",
     next_discriminant |-> NoDiscriminant,
     value_expressions_to_enum_keys |-> <<>>,
     out |-> NoOutput]

\* The request once its derive function has returned out: the locals are dropped.
Returned(q, out) ==
    [NewRequest(q.mode, q.input) EXCEPT !.pc = "done", !.out = out]

\* ------------------------------------------------------- EnumInfo::parse

\* Mutant of KeywordSpan: die!(msg), which reports at Span::call_site().
KeywordSpanCallSite(kind) == "call_site"

\* The span of the struct / union keyword.
KeywordSpan(kind) == IF kind = "union" THEN "union_token" ELSE "struct_token"

\* input.parse()?, the name, and the `if let Data::Enum(data)` test.
ParseInput(r) ==
    /\ req[r].pc = "parse"
    /\ LET q == req[r]
           input == q.input
       IN req' = [req EXCEPT ![r] =
                    IF input.kind = "enum"
                    THEN [q EXCEPT !.pc = "attrs", !.name = input.ident,
                                   !.attrs = input.attrs, !.variants = input.variants]
                    ELSE Returned(q, die(KeywordSpan(input.kind), MsgExpectedEnum))]
    /\ UNCHANGED <<crate, rt>>

\* Mutant of IsReprList: the test `ident == "repr"` left out.
IsReprListAnyPath(attr) == attr.meta = "list"

\* if let Ok(Meta::List(meta_list)) = attr.parse_meta(), get_ident() == "repr"
IsReprList(attr) == attr.meta = "list" /\ attr.path = "repr"

\* Mutant of ReprStep: only an empty argument list is refused, and the first
\* argument of a longer one is taken.
ReprStepFirstArgument(q, attr) ==
    IF ~(attr.meta = "list" /\ attr.path = "repr") THEN q
    ELSE IF Len(attr.nested) = 0 THEN Returned(q, die("repr", MsgOneArgument))
    ELSE IF attr.nested[1] \notin Idents THEN Returned(q, Panicked)
    ELSE IF attr.nested[1] = "C" THEN Returned(q, die("C", MsgReprC))
    ELSE [q EXCEPT !.pc = "variants", !.attrs = <<>>, !.repr = attr.nested[1],
                   !.next_discriminant = literal(0)]

\* Mutant of ReprStep: the test `repr == "C"` left out.
ReprStepAcceptsC(q, attr) ==
    IF ~(attr.meta = "list" /\ attr.path = "repr") THEN q
    ELSE IF Len(attr.nested) # 1 THEN Returned(q, die("repr", MsgOneArgument))
    ELSE IF attr.nested[1] \notin Idents THEN Returned(q, Panicked)
    ELSE [q EXCEPT !.pc = "variants", !.attrs = <<>>, !.repr = attr.nested[1],
                   !.next_discriminant = literal(0)]

\* What one iteration of the attribute loop does with attr, for request q
\* whose iterator is already advanced: skip it, die, panic, or break with repr.
ReprStep(q, attr) ==
    IF ~IsReprList(attr) THEN q
    ELSE IF Len(attr.nested) # 1 THEN Returned(q, die("repr", MsgOneArgument))
    ELSE IF attr.nested[1] \notin Idents THEN Returned(q, Panicked)
    ELSE IF attr.nested[1] = "C" THEN Returned(q, die("C", MsgReprC))
    ELSE [q EXCEPT !.pc = "variants", !.attrs = <<>>, !.repr = attr.nested[1],
                   !.next_discriminant = literal(0)]

\* One iteration of `loop { if let Some(attr) = attrs.next() ... }`; the break
\* is followed by `let mut next_discriminant = literal(0)`.
NextAttr(r) ==
    /\ req[r].pc = "attrs"
    /\ LET q == req[r] IN
       req' = [req EXCEPT ![r] =
                 IF q.attrs = <<>>
                 THEN Returned(q, die("call_site", MsgMissingRepr))
                 ELSE ReprStep([q EXCEPT !.attrs = Tail(q.attrs)], Head(q.attrs))]
    /\ UNCHANGED <<crate, rt>>

\* let disc = if let Some(d) = variant.discriminant { d.1 } else { next_discriminant.clone() }
Disc(variant, next_discriminant) ==
    IF variant.discriminant # NoDiscriminant THEN variant.discriminant
    ELSE next_discriminant

\* next_discriminant = parse_quote! { #repr::wrapping_add(#variant_ident, 1) }
NextDiscriminant(variant) == WrappingAdd(variant.ident)

\* Mutant of MapVariant: next_discriminant kept in one place for all requests
\* (that of the first request) instead of a local of each parse.
MapVariantShared(r) ==
    /\ req[r].pc = "variants"
    /\ req[r].variants # <<>>
    /\ LET q == req[r]
           variant == Head(q.variants)
           shared == [req EXCEPT ![1].next_discriminant = NextDiscriminant(variant)]
       IN req' = [shared EXCEPT ![r] =
                    [shared[r] EXCEPT !.variants = Tail(q.variants),
                              !.value_expressions_to_enum_keys =
                                  Append(q.value_expressions_to_enum_keys,
                                         <<Disc(variant, req[1].next_discriminant),
                                           variant.ident>>)]]
    /\ UNCHANGED <<crate, rt>>

\* The closure of data.variants.into_iter().map(...) on the next variant.
MapVariant(r) ==
    /\ req[r].pc = "variants"
    /\ req[r].variants # <<>>
    /\ LET q == req[r]
           variant == Head(q.variants)
       IN req' = [req EXCEPT ![r] =
                    [q EXCEPT !.variants = Tail(q.variants),
                              !.value_expressions_to_enum_keys =
                                  Append(q.value_expressions_to_enum_keys,
                                         <<Disc(variant, q.next_discriminant),
                                           variant.ident>>),
                              !.next_discriminant = NextDiscriminant(variant)]]
    /\ UNCHANGED <<crate, rt>>

\* parse has returned Ok(EnumInfo { name, repr, value_expressions_to_enum_keys }).
Parsed(q) == q.pc = "variants" /\ q.variants = <<>>

\* ------------------------------------------------------------- the derives

\* derive_into_primitive: impl From<#name> for #repr.
DeriveIntoPrimitive(r) ==
    /\ Parsed(req[r])
    /\ req[r].mode = "IntoPrimitive"
    /\ LET q == req[r] IN
       req' = [req EXCEPT ![r] =
                 Returned(q, Tokens("impl From", q.name, q.repr, <<>>, <<>>))]
    /\ UNCHANGED <<crate, rt>>

\* The consts `const #enum_keys: #repr = #match_const_exprs;` after unzip.
Consts(pairs) == [i \in 1..Len(pairs) |-> [key |-> pairs[i][2], expr |-> pairs[i][1]]]

\* The arms `| #enum_keys => Ok(#name::#enum_keys)` after unzip.
Arms(pairs) == [i \in 1..Len(pairs) |-> pairs[i][2]]

\* derive_try_from_primitive: impl TryFromPrimitive and impl TryFrom<#repr>.
DeriveTryFromPrimitive(r) ==
    /\ Parsed(req[r])
    /\ req[r].mode = "TryFromPrimitive"
    /\ LET q == req[r] IN
       req' = [req EXCEPT ![r] =
                 Returned(q, Tokens("impl TryFromPrimitive", q.name, q.repr,
                                    Consts(q.value_expressions_to_enum_keys),
                                    Arms(q.value_expressions_to_enum_keys)))]
    /\ UNCHANGED <<crate, rt>>

\* derive_unsafe_from_primitive: unsafe fn from_unchecked.
DeriveUnsafeFromPrimitive(r) ==
    /\ Parsed(req[r])
    /\ req[r].mode = "UnsafeFromPrimitive"
    /\ LET q == req[r] IN
       req' = [req EXCEPT ![r] =
                 Returned(q, Tokens("fn from_unchecked", q.name, q.repr, <<>>, <<>>))]
    /\ UNCHANGED <<crate, rt>>


\* ------------------------------------------------- the enum, as compiled

\* An explicit discriminant expression evaluated where the enum is declared.
ModuleEval(expr) == IF expr.k = "lit" THEN expr.v ELSE ModuleConsts[expr.id]

\* The discriminant the compiler gives variant i: its explicit expression, 0
\* for a first implicit one, else one more than the previous (not wrapped:
\* a value out of the repr's range is an overflow error).
RECURSIVE Discriminant(_, _)
Discriminant(variants, i) ==
    IF variants[i].discriminant # NoDiscriminant
    THEN ModuleEval(variants[i].discriminant)
    ELSE IF i = 1 THEN 0 ELSE Discriminant(variants, i - 1) + 1

\* The compiler accepts the enum under #[repr(repr)]: an integer type, at
\* least one variant, no discriminant overflow, no discriminant twice.
EnumCompiles(input, repr) ==
    /\ repr \in IntTypes
    /\ input.variants # <<>>
    /\ \A i \in DOMAIN input.variants : InRange(repr, Discriminant(input.variants, i))
    /\ \A i, j \in DOMAIN input.variants :
         Discriminant(input.variants, i) = Discriminant(input.variants, j) => i = j

\* ---------------------------------------------------- the generated code

\* Mutant of wrapping_add: an addition that does not wrap.
PlainAdd(repr, x, y) == x + y

\* #repr::wrapping_add(x, y)
wrapping_add(repr, x, y) ==
    LET width == MaxVal(repr) - MinVal(repr) + 1
    IN ((x + y - MinVal(repr)) % width) + MinVal(repr)

\* A constant evaluated, or the error of a constant defined by itself.
Value(v) == [ok |-> TRUE, v |-> v]

Cycle == [ok |-> FALSE, v |-> 0]

\* The position of the const named id in the function body; 0 when none is.
LocalConst(consts, id) ==
    IF \E i \in DOMAIN consts : consts[i].key = id
    THEN CHOOSE i \in DOMAIN consts : consts[i].key = id
    ELSE 0

\* `const #enum_keys: #repr = #match_const_exprs;` evaluated in the body of
\* try_from_primitive: a path names the body's own const of that name when
\* there is one, a constant of the enclosing module otherwise.
RECURSIVE ConstEval(_, _, _, _)
ConstEval(consts, repr, i, fuel) ==
    LET expr == consts[i].expr
        j == LocalConst(consts, expr.id)
        inner == ConstEval(consts, repr, j, fuel - 1)
    IN IF expr.k = "lit" THEN Value(expr.v)
       ELSE IF j = 0 THEN Value(ModuleConsts[expr.id])
       ELSE IF fuel = 0 \/ ~inner.ok THEN Cycle
       ELSE IF expr.k = "wrapping_add" THEN Value(wrapping_add(repr, inner.v, expr.v))
       ELSE inner

\* The value of the const named key in the generated function.
ConstValue(out, key) ==
    ConstEval(out.consts, out.repr, LocalConst(out.consts, key), Len(out.consts))

\* The generated item compiles: every const of it has a value.
ItemCompiles(out) ==
    \A i \in DOMAIN out.consts : ConstValue(out, out.consts[i].key).ok

Ok(v) == [ok |-> TRUE, v |-> v]

Err == [ok |-> FALSE, v |-> "()"]

\* Mutant of MatchNumber: the last arm that matches wins.
RECURSIVE MatchNumberLast(_, _, _)
MatchNumberLast(out, number, i) ==
    IF i > Len(out.arms) THEN [ok |-> FALSE, v |-> "()"]
    ELSE LET later == MatchNumberLast(out, number, i + 1)
         IN IF later.ok THEN later
            ELSE IF ConstValue(out, out.arms[i]).v = number
                 THEN [ok |-> TRUE, v |-> out.arms[i]]
                 ELSE later

\* match number { | A => Ok(E::A), | B => Ok(E::B), ... | _ => Err(()) } from arm i on.
RECURSIVE MatchNumber(_, _, _)
MatchNumber(out, number, i) ==
    IF i > Len(out.arms) THEN Err
    ELSE IF ConstValue(out, out.arms[i]).v = number THEN Ok(out.arms[i])
    ELSE MatchNumber(out, number, i + 1)

\* fn try_from_primitive(number: Self::Primitive) -> Result<Self, ()>
try_from_primitive(out, number) == MatchNumber(out, number, 1)

\* fn try_from(number: #repr) -> Result<Self, ()>
try_from(out, number) == try_from_primitive(out, number)

\* fn from(enum_value: #name) -> Self { enum_value as Self }, on variant i.
from(input, i) == Discriminant(input.variants, i)

\* unsafe fn from_unchecked(number: #repr) -> Self { transmute(number) }: what
\* it may return: the variant of that discriminant; anything when there is none.
from_unchecked(input, number) ==
    LET hit == {i \in DOMAIN input.variants : Discriminant(input.variants, i) = number}
    IN IF hit # {} THEN {input.variants[i].ident : i \in hit}
       ELSE {input.variants[i].ident : i \in DOMAIN input.variants} \cup {"undefined"}

\* ------------------------------------------------------------- the calls

\* The numbers the generated functions are called with.
Inputs(repr) == {MinVal(repr), 0, 1, 2, 10, 11, MaxVal(repr)}

NoResult == [ok |-> FALSE, v |-> ""]

\* Nothing has been called.
NoCall == [fn |-> "", r |-> 0, enum_value |-> "", number |-> 0, ret |-> NoResult]

\* Every derive has emitted its item, and the crate compiles with them.
Compiles ==
    \A r \in Requests :
        /\ req[r].out.kind = "tokens"
        /\ EnumCompiles(req[r].input, req[r].out.repr)
        /\ ItemCompiles(req[r].out)

\* Every derive has returned: the compiler checks the expanded crate.
Compile ==
    /\ crate = "expanding"
    /\ \A r \in Requests : req[r].pc = "done"
    /\ crate' = IF Compiles THEN "compiled" ELSE "rejected"
    /\ UNCHANGED <<req, rt>>

\* repr::from(E::v)
CallFrom(r, i) ==
    /\ crate = "compiled"
    /\ req[r].out.item = "impl From"
    /\ i \in DOMAIN req[r].input.variants
    /\ rt' = [fn |-> "from", r |-> r, enum_value |-> req[r].input.variants[i].ident,
              number |-> from(req[r].input, i), ret |-> NoResult]
    /\ UNCHANGED <<req, crate>>

\* E::try_from_primitive(number)
CallTryFromPrimitive(r, number) ==
    /\ crate = "compiled"
    /\ req[r].out.item = "impl TryFromPrimitive"
    /\ number \in Inputs(req[r].out.repr)
    /\ rt' = [fn |-> "try_from_primitive", r |-> r, enum_value |-> "",
              number |-> number, ret |-> try_from_primitive(req[r].out, number)]
    /\ UNCHANGED <<req, crate>>

\* E::try_from(number), number an input or what repr::from(E::v) just returned.
CallTryFrom(r, number) ==
    /\ crate = "compiled"
    /\ req[r].out.item = "impl TryFromPrimitive"
    /\ LET round_trip == /\ rt.fn = "from"
                         /\ req[rt.r].input = req[r].input
                         /\ number = rt.number
       IN /\ number \in Inputs(req[r].out.repr) \/ round_trip
          /\ rt' = [fn |-> "try_from", r |-> r,
                    enum_value |-> IF round_trip THEN rt.enum_value ELSE "",
                    number |-> number, ret |-> try_from(req[r].out, number)]
    /\ UNCHANGED <<req, crate>>

\* E::from_unchecked(number)
CallFromUnchecked(r, number) ==
    /\ crate = "compiled"
    /\ req[r].out.item = "fn from_unchecked"
    /\ number \in Inputs(req[r].out.repr)
    /\ \E v \in from_unchecked(req[r].input, number) :
         rt' = [fn |-> "from_unchecked", r |-> r, enum_value |-> "",
                number |-> number, ret |-> Ok(v)]
    /\ UNCHANGED <<req, crate>>

\* --------------------------------------------------------- specifications

\* The numbers any call is made with.
Numbers == UNION {Inputs(repr) : repr \in IntTypes} \cup {ModuleConsts.ONE, ModuleConsts.A}

Next ==
    \/ Compile
    \/ \E r \in Requests :
        \/ ParseInput(r)
        \/ NextAttr(r)
        \/ MapVariant(r)
        \/ DeriveIntoPrimitive(r)
        \/ DeriveTryFromPrimitive(r)
        \/ DeriveUnsafeFromPrimitive(r)
        \/ \E i \in 1..Len(VariantIdents) : CallFrom(r, i)
        \/ \E number \in Numbers : CallTryFromPrimitive(r, number)
        \/ \E number \in Numbers : CallTryFrom(r, number)
        \/ \E number \in Numbers : CallFromUnchecked(r, number)

\* #[derive(X, Y)] on one declaration: two derives of distinct macros run
\* over the same input.
Init ==
    /\ \E input \in Decls, m1, m2 \in DOMAIN Modes :
         /\ m1 < m2
         /\ req = [r \in Requests |-> NewRequest(Modes[IF r = 1 THEN m1 ELSE m2], input)]
    /\ crate = "expanding"
    /\ rt = NoCall

Spec == Init /\ [][Next]_vars


\* The names of the declarations of a compilation whose derives are on
\* different declarations.
EnumNames == <<"E", "F">>

\* Declarations of such a compilation: a struct, enums without a repr, with
\* repr(C), and with an integer repr.
DeclsPar ==
    { Decl("struct", <<ReprAttr(<<"u8">>)>>, <<>>),
      Decl("enum", <<>>, Variants(<<NoDiscriminant>>)),
      Decl("enum", <<AllowAttr, ReprAttr(<<"C">>)>>, Variants(<<NoDiscriminant>>)),
      Decl("enum", <<ReprAttr(<<"u8">>)>>, Variants(<<NoDiscriminant, NoDiscriminant>>)),
      Decl("enum", <<DocAttr, ReprAttr(<<"i8">>)>>,
           Variants(<<Lit(10), NoDiscriminant, NoDiscriminant>>)),
      ExampleDecl("u8") }

\* Two derives, of any macros, each on a declaration of its own.
InitPar ==
    /\ \E ms \in [Requests -> DOMAIN Modes], ds \in [Requests -> DeclsPar] :
         req = [r \in Requests |->
                   NewRequest(Modes[ms[r]], [ds[r] EXCEPT !.ident = EnumNames[r]])]
    /\ crate = "expanding"
    /\ rt = NoCall

SpecPar == InitPar /\ [][Next]_vars

\* ------------------------------------------- a derive as a pure function

\* The attribute loop of parse as a function of the attribute list: the repr
\* it breaks with, or what it returns early.
RECURSIVE FindRepr(_)
FindRepr(attrs) ==
    IF attrs = <<>> THEN [repr |-> "", out |-> die("call_site", MsgMissingRepr)]
    ELSE LET attr == Head(attrs) IN
         IF ~(attr.meta = "list" /\ attr.path = "repr") THEN FindRepr(Tail(attrs))
         ELSE IF Len(attr.nested) # 1
              THEN [repr |-> "", out |-> die("repr", MsgOneArgument)]
         ELSE IF attr.nested[1] \notin Idents THEN [repr |-> "", out |-> Panicked]
         ELSE IF attr.nested[1] = "C" THEN [repr |-> "", out |-> die("C", MsgReprC)]
         ELSE [repr |-> attr.nested[1], out |-> NoOutput]

\* The variant map of parse as a function of the variant list.
RECURSIVE MapVariants(_, _)
MapVariants(variants, next_discriminant) ==
    IF variants = <<>> THEN <<>>
    ELSE LET variant == Head(variants)
             disc == IF variant.discriminant # NoDiscriminant
                     THEN variant.discriminant ELSE next_discriminant
         IN <<<<disc, variant.ident>>>>
                \o MapVariants(Tail(variants), WrappingAdd(variant.ident))

\* What the derive of macro mode returns on input.
Derive(mode, input) ==
    IF input.kind # "enum"
    THEN die(IF input.kind = "union" THEN "union_token" ELSE "struct_token",
             MsgExpectedEnum)
    ELSE LET found == FindRepr(input.attrs)
             pairs == MapVariants(input.variants, literal(0))
         IN IF found.out # NoOutput THEN found.out
            ELSE IF mode = "IntoPrimitive"
                 THEN Tokens("impl From", input.ident, found.repr, <<>>, <<>>)
            ELSE IF mode = "TryFromPrimitive"
                 THEN Tokens("impl TryFromPrimitive", input.ident, found.repr,
                             Consts(pairs), Arms(pairs))
            ELSE Tokens("fn from_unchecked", input.ident, found.repr, <<>>, <<>>)

\* ----------------------------------------------------------------- claims

\* Request r has returned.
Done(r) == req[r].pc = "done"

\* Request r has returned the impls of TryFromPrimitive and TryFrom.
EmittedTryFrom(r) == Done(r) /\ req[r].out.item = "impl TryFromPrimitive"

\* The variants of the enum the last call was made on.
CalledVariants == req[rt.r].input.variants

\* C1: for every enumeration the analyzer accepts and every number x of the
\* representation type, try_from_primitive(x) is Ok(V) when x is the
\* discriminant of variant V, and Err(()) exactly when x is the discriminant
\* of no variant.
C1_TryFromPrimitiveDecides ==
    rt.fn = "try_from_primitive" =>
        /\ \A i \in DOMAIN CalledVariants :
               Discriminant(CalledVariants, i) = rt.number
                   => rt.ret = Ok(CalledVariants[i].ident)
        /\ rt.ret = Err <=>
               \A i \in DOMAIN CalledVariants :
                   Discriminant(CalledVariants, i) # rt.number

\* C2: round trip: try_from applied to what from returned for variant V is
\* Ok(V).
C2_RoundTrip ==
    (rt.fn = "try_from" /\ rt.enum_value # "") => rt.ret = Ok(rt.enum_value)

\* The value the generated code gives the const of variant i of request r.
Resolved(r, i) == ConstValue(req[r].out, req[r].input.variants[i].ident)

\* C3: in the generated code a variant with an explicit discriminant has
\* exactly that value, a first variant without one has 0, and a later variant
\* without one has the value of the variant before it plus one (in the
\* representation type); A, B, C = 10, D has 0, 1, 10, 11.
C3_DiscriminantResolution ==
    \A r \in Requests :
        (EmittedTryFrom(r) /\ ItemCompiles(req[r].out)) =>
            LET vs == req[r].input.variants IN
            /\ \A i \in DOMAIN vs :
                   IF vs[i].discriminant # NoDiscriminant
                   THEN Resolved(r, i) = Value(ModuleEval(vs[i].discriminant))
                   ELSE IF i = 1 THEN Resolved(r, i) = Value(0)
                   ELSE \/ Resolved(r, i) = Value(Resolved(r, i - 1).v + 1)
                        \/ /\ Resolved(r, i - 1).v = MaxVal(req[r].out.repr)
                           /\ Resolved(r, i) = Value(MinVal(req[r].out.repr))
            /\ vs = ExampleDecl(req[r].out.repr).variants =>
                   [i \in DOMAIN vs |-> Resolved(r, i).v] = <<0, 1, 10, 11>>


\* C4 as stated: when the const of a variant is the maximum of the
\* representation type and the next variant has no explicit discriminant, the
\* const of that next variant evaluates, without an overflow error, to 0.
C4_WrapsToZero ==
    \A r \in Requests :
        (EmittedTryFrom(r) /\ ItemCompiles(req[r].out)) =>
            \A i \in DOMAIN req[r].input.variants :
                (/\ i > 1
                 /\ req[r].input.variants[i].discriminant = NoDiscriminant
                 /\ Resolved(r, i - 1) = Value(MaxVal(req[r].out.repr)))
                    => Resolved(r, i) = Value(0)

\* C4 amended: the const of that next variant evaluates, without an overflow
\* error, to the minimum of the representation type: 0 for u8, -128 for i8.
C4_WrapsToMin ==
    \A r \in Requests :
        (EmittedTryFrom(r) /\ ItemCompiles(req[r].out)) =>
            \A i \in DOMAIN req[r].input.variants :
                (/\ i > 1
                 /\ req[r].input.variants[i].discriminant = NoDiscriminant
                 /\ Resolved(r, i - 1) = Value(MaxVal(req[r].out.repr)))
                    => Resolved(r, i) =
                           Value(IF req[r].out.repr = "u8" THEN 0 ELSE -128)

\* C4's case: an i8 enum whose variant after one of value 127 is implicit.
C4_Witness ==
    \E r \in Requests :
        /\ EmittedTryFrom(r)
        /\ req[r].out.repr = "i8"
        /\ \E i \in DOMAIN req[r].input.variants :
               /\ i > 1
               /\ req[r].input.variants[i].discriminant = NoDiscriminant
               /\ Resolved(r, i - 1) = Value(127)
               /\ Resolved(r, i) = Value(-128)

\* The positions of the #[repr(...)] list attributes of a declaration.
ReprAnnotations(input) ==
    {i \in DOMAIN input.attrs : input.attrs[i] = ReprAttr(input.attrs[i].nested)}

\* The arguments of the first #[repr(...)] of a declaration that has one.
FirstReprArguments(input) ==
    LET first == CHOOSE i \in ReprAnnotations(input) :
                     \A j \in ReprAnnotations(input) : i <= j
    IN input.attrs[first].nested

\* parse of request r has produced an EnumInfo, and the repr in it.
ProducedEnumInfo(r) == req[r].pc = "variants" \/ (Done(r) /\ req[r].out.kind = "tokens")

ProducedRepr(r) == IF Done(r) THEN req[r].out.repr ELSE req[r].repr

\* Request r has failed with the diagnostic msg at span.
Diagnosed(r, span, msg) ==
    /\ Done(r)
    /\ req[r].out.kind = "compile_error"
    /\ req[r].out.msg = msg
    /\ req[r].out.span = span
    /\ req[r].out.consts = <<>> /\ req[r].out.arms = <<>>

\* C5 as stated: an EnumInfo is produced only if the input has exactly one
\* repr annotation and it names a fixed-width integer type; an annotation
\* with other than one argument fails with "Expected exactly one 'repr'
\* argument".
C5_ExactlyOneIntegerRepr ==
    \A r \in Requests :
        /\ ProducedEnumInfo(r) =>
               /\ Cardinality(ReprAnnotations(req[r].input)) = 1
               /\ ProducedRepr(r) \in IntTypes
        /\ (/\ Done(r)
            /\ req[r].input.kind = "enum"
            /\ \E i \in ReprAnnotations(req[r].input) :
                   Len(req[r].input.attrs[i].nested) # 1)
               => Diagnosed(r, "repr", "Expected exactly one 'repr' argument")

\* C5 amended: an EnumInfo is produced only if the input has a repr
\* annotation and the first one has exactly one argument, an identifier other
\* than C, which becomes the repr; when the first repr annotation of an enum
\* has other than one argument, the request fails with "Expected exactly one
\* 'repr' argument".
C5_FirstReprDecides ==
    \A r \in Requests :
        /\ ProducedEnumInfo(r) =>
               /\ ReprAnnotations(req[r].input) # {}
               /\ Len(FirstReprArguments(req[r].input)) = 1
               /\ FirstReprArguments(req[r].input)[1] \in {"u8", "i8", "transparent"}
               /\ ProducedRepr(r) = FirstReprArguments(req[r].input)[1]
        /\ (/\ Done(r)
            /\ req[r].input.kind = "enum"
            /\ ReprAnnotations(req[r].input) # {}
            /\ Len(FirstReprArguments(req[r].input)) # 1)
               => Diagnosed(r, "repr", "Expected exactly one 'repr' argument")

\* C5's case: an EnumInfo produced from an enum with two repr annotations,
\* the second of which has two arguments.
C5_Witness ==
    \E r \in Requests :
        /\ ProducedEnumInfo(r)
        /\ Done(r)
        /\ req[r].input.attrs = <<ReprAttr(<<"u8">>), ReprAttr(<<"C", "u8">>)>>

\* C6: a struct or union, with or without a repr annotation, fails in every
\* derive with "Expected enum" at its struct / union keyword, and no code is
\* emitted.
C6_ExpectedEnum ==
    \A r \in Requests :
        req[r].input.kind # "enum" =>
            /\ req[r].pc \in {"parse", "done"}
            /\ Done(r) =>
                   Diagnosed(r, IF req[r].input.kind = "struct"
                                THEN "struct_token" ELSE "union_token",
                             "Expected enum")

\* C6's case: both derives on a union that has #[repr(u8)] have failed, one of
\* them UnsafeFromPrimitive.
C6_Witness ==
    /\ \A r \in Requests :
           /\ Done(r)
           /\ req[r].input.kind = "union"
           /\ req[r].input.attrs = <<ReprAttr(<<"u8">>)>>
           /\ req[r].out.msg = "Expected enum"
    /\ \E r \in Requests : req[r].mode = "UnsafeFromPrimitive"

\* C7: an enum with no #[repr(...)] list among its attributes fails with
\* "Missing '#[repr({Integer})]' attribute".
C7_MissingRepr ==
    \A r \in Requests :
        (/\ Done(r)
         /\ req[r].input.kind = "enum"
         /\ ReprAnnotations(req[r].input) = {})
            => Diagnosed(r, "call_site", "Missing '#[repr({Integer})]' attribute")

\* C7's case: an enum with attributes, none of them a repr list, has failed.
C7_Witness ==
    \E r \in Requests :
        /\ Done(r)
        /\ req[r].input.kind = "enum"
        /\ req[r].input.attrs = <<AllowAttr, DocAttr>>
        /\ req[r].out.msg = "Missing '#[repr({Integer})]' attribute"

\* C8: an enum whose repr annotation (the first, when it has several) is
\* repr(C) fails with "repr(C) doesn't have a well defined size".
C8_ReprC ==
    \A r \in Requests :
        (/\ Done(r)
         /\ req[r].input.kind = "enum"
         /\ ReprAnnotations(req[r].input) # {}
         /\ FirstReprArguments(req[r].input) = <<"C">>)
            => Diagnosed(r, "C", "repr(C) doesn't have a well defined size")

\* C8's case: an enum with #[allow(dead_code)] #[repr(C)] has failed.
C8_Witness ==
    \E r \in Requests :
        /\ Done(r)
        /\ req[r].input.kind = "enum"
        /\ req[r].input.attrs = <<AllowAttr, ReprAttr(<<"C">>)>>
        /\ req[r].out.msg = "repr(C) doesn't have a well defined size"

\* The arms of the last call's match whose const equals the number.
MatchingArms ==
    {i \in DOMAIN req[rt.r].out.arms :
        ConstValue(req[rt.r].out, req[rt.r].out.arms[i]) = Value(rt.number)}

\* C10: the analyzer's list has one (expression, identifier) pair per variant
\* in declaration order, so has the generated match, and a call of
\* try_from_primitive returns the first variant in declaration order whose
\* const equals the number, also when a later one equals it too.
C10_FirstMatchInDeclarationOrder ==
    /\ \A r \in Requests :
           LET vs == req[r].input.variants
               pairs == req[r].value_expressions_to_enum_keys
           IN /\ Len(pairs) <= Len(vs)
              /\ \A i \in DOMAIN pairs : pairs[i][2] = vs[i].ident
              /\ EmittedTryFrom(r) =>
                     /\ req[r].out.arms = [i \in DOMAIN vs |-> vs[i].ident]
                     /\ Len(req[r].out.consts) = Len(vs)
                     /\ \A i \in DOMAIN vs : req[r].out.consts[i].key = vs[i].ident
    /\ (rt.fn \in {"try_from_primitive", "try_from"} /\ MatchingArms # {}) =>
           \E i \in MatchingArms :
               /\ \A j \in MatchingArms : i <= j
               /\ rt.ret = Ok(req[rt.r].input.variants[i].ident)

\* C10's case: try_from_primitive called with a number that the consts of two
\* variants equal.
C10_Witness ==
    /\ rt.fn = "try_from_primitive"
    /\ Cardinality(MatchingArms) >= 2
    /\ rt.ret.ok


\* C9: whatever the order and interleaving of the requests, what a request
\* returns is a function of its own declaration and macro, whether or not the
\* other request fails, and a request that has returned keeps no local state.
C9_RequestsIndependent ==
    \A r \in Requests :
        Done(r) =>
            /\ req[r].out = Derive(req[r].mode, req[r].input)
            /\ req[r] = Returned(req[r], req[r].out)

\* C9's case: the first request has failed with a diagnostic and the second,
\* on another declaration, has emitted the match over its four variants.
C9_Witness ==
    /\ Done(1) /\ req[1].out.kind = "compile_error"
    /\ Done(2) /\ req[2].out.item = "impl TryFromPrimitive"
    /\ Len(req[2].out.arms) = 4

==========================================================================
